---- MODULE Spec2Model ----
(***************************************************************************)
(* Feedback Chatbot API (Backend/app.py): the three tables, the request    *)
(* scoped storage session of db(), and the eight endpoint handlers.        *)
(*                                                                         *)
(* A request is handled in steps: the db dependency opens the storage      *)
(* session, the handler runs (one step per storage access or clock read),  *)
(* and the dependency's finally clause closes the session.  Up to two      *)
(* requests are in flight at a time.  While a request waits in "close",    *)
(* its response and the handler's locals are still visible.                *)
(*                                                                         *)
(* Optional values (None / NULL) are sequences: NULL is <<>>, a present    *)
(* value v is <<v>>.  Text is a sequence of characters.  Timestamps are    *)
(* readings of a wall clock that never runs backwards but may give the     *)
(* same reading twice.  A row's uuid primary key is its position in the    *)
(* table's sequence (insertion order).                                     *)
(***************************************************************************)
EXTENDS Integers, Sequences, FiniteSets, TLC

VARIABLES backend, clock, sessions, messages, feedback,
          pc, call, loc, resp, dbOpen

vars == <<backend, clock, sessions, messages, feedback, pc, call, loc, resp, dbOpen>>
tables == <<sessions, messages, feedback>>

\* ---------------------------------------------------------------- bounds
MaxTime == 2
MaxMessages == 1
MaxFeedback == 2

\* ---------------------------------------------------------------- values
NULL == <<>>
Some(x) == <<x>>

Reqs == {1, 2}
SessionIds == {"s1", "s2"}
Backends == {"sqlite", "postgresql"}

ValidRoles == {"user", "assistant", "system"}

CatalogKeys ==
  <<"believability", "realism", "design_opt", "ease_use", "trust", "task_success", "free_text">>

Catalog ==
  [i \in 1..7 |->
     IF i <= 6
       THEN [key |-> CatalogKeys[i], type |-> "likert", scale_min |-> Some(1), scale_max |-> Some(5)]
       ELSE [key |-> CatalogKeys[i], type |-> "text", scale_min |-> NULL, scale_max |-> NULL]]

\* ---------------------------------------------------------------- requests
StartSessionReq ==
  { [op |-> "start_session", consented |-> FALSE, research_version |-> NULL, user_agent |-> NULL],
    [op |-> "start_session", consented |-> TRUE, research_version |-> Some("v1"), user_agent |-> Some("ua")] }

ChatMessageReq ==
  { [op |-> "save_message", session_id |-> s, role |-> ro, content |-> "hello"] :
      s \in SessionIds, ro \in ValidRoles \cup {"bot"} }

EndSessionReq == { [op |-> "end_session", session_id |-> s] : s \in SessionIds }

FeedbackStartReq == { [op |-> "feedback_start", session_id |-> s] : s \in SessionIds }

TextLines == <<"a", "\n", "b">>

\* "trust" is a catalog key answered on the scale; "mood" is no catalog key.
FeedbackAnswerReq ==
  { [op |-> "feedback_answer", session_id |-> "s1", q_key |-> "trust",
     answer_numeric |-> Some(5), answer_text |-> NULL],
    [op |-> "feedback_answer", session_id |-> "s1", q_key |-> "mood",
     answer_numeric |-> NULL, answer_text |-> Some(TextLines)] }

ExportReq == { [op |-> "export_feedback_csv"], [op |-> "export_feedback_json"] }

NoCall == [op |-> "none"]
NoLoc == [sess |-> NULL, now |-> NULL, table |-> <<>>, rows |-> <<>>]
NoResp == [status |-> 0, body |-> [none |-> TRUE]]

Response(status, body) == [status |-> status, body |-> body]
OkBody == [ok |-> TRUE]
HTTPException(status, detail) == Response(status, [detail |-> detail])
ServerError == Response(500, [detail |-> "Internal Server Error"])

\* ---------------------------------------------------------------- storage
utcnow == clock

NewSession(c, t) ==
  [started_at |-> t, ended_at |-> NULL, consented |-> c.consented,
   research_version |-> c.research_version, user_agent |-> c.user_agent, notes |-> NULL]

NewMessage(c, t) ==
  [session_id |-> c.session_id, role |-> c.role, content |-> c.content, ts |-> t]

NewFeedbackResponse(c, t) ==
  [session_id |-> c.session_id, q_key |-> c.q_key, answer_numeric |-> c.answer_numeric,
   answer_text |-> c.answer_text, ts |-> t]

\* As if the handlers looked the session up themselves on every backend.
ForeignKeyOk_AppCheck(sid) == sid \in DOMAIN sessions

\* ForeignKey("sessions.id"): PostgreSQL enforces the constraint create_all
\* declares; SQLite as connected here (no PRAGMA foreign_keys) does not.
ForeignKeyOk(sid) == backend = "sqlite" \/ sid \in DOMAIN sessions

\* s.get(Session, id): the row or None.
s_get(id) == IF id \in DOMAIN sessions THEN Some(sessions[id]) ELSE NULL

\* As if the existence check were dropped.
SessionMissing_Dropped(sess) == FALSE

\* `if not sess`
SessionMissing(sess) == sess = NULL

\* As if "bot" were a fourth accepted role.
InvalidRole_BotAccepted(role) == role \notin {"user", "assistant", "system", "bot"}

\* `if req.role not in ("user","assistant","system")`
InvalidRole(role) == role \notin ValidRoles

\* As if the stored end timestamp were only ever moved forward.
UpdateEndedAt_KeepLatest(id, now) ==
  IF sessions[id].ended_at # NULL /\ sessions[id].ended_at[1] > now
    THEN sessions
    ELSE [sessions EXCEPT ![id].ended_at = Some(now)]

\* As if the UPDATE had no WHERE clause.
UpdateEndedAt_NoWhere(id, now) == [i \in DOMAIN sessions |-> [sessions[i] EXCEPT !.ended_at = Some(now)]]

\* The UPDATE that s.commit() flushes for sess.ended_at = now.
UpdateEndedAt(id, now) == [sessions EXCEPT ![id].ended_at = Some(now)]

\* As if the end timestamp were taken from a clock that runs behind the one
\* the start timestamp is taken from (local time against UTC).
end_now_LocalTime == clock - 1

\* `sess.ended_at = datetime.utcnow()`
end_now == utcnow

\* As if an answer replaced the earlier answer to the same question of the
\* same session.
InsertFeedback_Upsert(row) ==
  IF \E i \in 1..Len(feedback) :
       feedback[i].session_id = row.session_id /\ feedback[i].q_key = row.q_key
    THEN [i \in 1..Len(feedback) |->
            IF feedback[i].session_id = row.session_id /\ feedback[i].q_key = row.q_key
              THEN row ELSE feedback[i]]
    ELSE Append(feedback, row)

\* s.add(row); s.commit()
InsertFeedback(row) == Append(feedback, row)

\* As if an exception left the generator without its finally clause.
AfterYield_NoFinally(raised) == IF raised THEN "idle" ELSE "close"

\* The generator's try/finally: where control goes after the handler
\* returned (raised = FALSE) or raised (raised = TRUE).
AfterYield(raised) == "close"

\* ---------------------------------------------------------------- export
Orderings(n) == { p \in [1..n -> 1..n] : \A i, j \in 1..n : i # j => p[i] # p[j] }

\* query(FeedbackResponse).order_by(ts.asc()).all(): every row once, in
\* non-decreasing ts; SQL leaves the order among equal ts to the engine.
OrderByTs(rows) ==
  { [i \in 1..Len(rows) |-> rows[p[i]]] :
      p \in { q \in Orderings(Len(rows)) :
                \A i, j \in 1..Len(rows) : i < j => rows[q[i]].ts <= rows[q[j]].ts } }

isoformat(t) == ToString(t)

\* (r.answer_text or "").replace("\n", " ")
ReplaceNewlines(text) == [i \in 1..Len(text) |-> IF text[i] = "\n" THEN " " ELSE text[i]]
OrEmpty(opt) == IF opt = NULL THEN <<>> ELSE opt[1]

CatalogKeySet == { CatalogKeys[i] : i \in 1..Len(CatalogKeys) }

\* As if the CSV export blanked question keys that are not in the catalog.
CsvRow_CatalogOnly(r) ==
  [session_id |-> r.session_id,
   q_key |-> IF r.q_key \in CatalogKeySet THEN r.q_key ELSE "",
   answer_numeric |-> IF r.answer_numeric = NULL THEN "" ELSE ToString(r.answer_numeric[1]),
   answer_text |-> ReplaceNewlines(OrEmpty(r.answer_text)),
   ts |-> isoformat(r.ts)]

CsvRow(r) ==
  [session_id |-> r.session_id,
   q_key |-> r.q_key,
   answer_numeric |-> IF r.answer_numeric = NULL THEN "" ELSE ToString(r.answer_numeric[1]),
   answer_text |-> ReplaceNewlines(OrEmpty(r.answer_text)),
   ts |-> isoformat(r.ts)]

JsonRow(r) ==
  [session_id |-> r.session_id,
   q_key |-> r.q_key,
   answer_numeric |-> r.answer_numeric,
   answer_text |-> r.answer_text,
   ts |-> isoformat(r.ts)]

CsvHeader == <<"session_id", "q_key", "answer_numeric", "answer_text", "ts">>

\* ---------------------------------------------------------------- init
Init ==
  /\ backend \in Backends
  /\ clock = 0
  /\ sessions = <<>>
  /\ messages = <<>>
  /\ feedback = <<>>
  /\ pc = [r \in Reqs |-> "idle"]
  /\ call = [r \in Reqs |-> NoCall]
  /\ loc = [r \in Reqs |-> NoLoc]
  /\ resp = [r \in Reqs |-> NoResp]
  /\ dbOpen = [r \in Reqs |-> FALSE]

\* ---------------------------------------------------------------- steps
Tick ==
  /\ clock < MaxTime
  /\ clock' = clock + 1
  /\ UNCHANGED <<backend, sessions, messages, feedback, pc, call, loc, resp, dbOpen>>

\* A handler finishes: its response is set and control passes to the
\* dependency's finally clause.
Finish(r, response, raised) ==
  /\ resp' = [resp EXCEPT ![r] = response]
  /\ pc' = [pc EXCEPT ![r] = AfterYield(raised)]

healthz(r) ==
  /\ pc[r] = "idle"
  /\ call' = [call EXCEPT ![r] = [op |-> "healthz"]]
  /\ resp' = [resp EXCEPT ![r] = Response(200, OkBody)]
  /\ loc' = [loc EXCEPT ![r] = NoLoc]
  /\ UNCHANGED <<backend, clock, sessions, messages, feedback, pc, dbOpen>>

feedback_start(r, c) ==
  /\ pc[r] = "idle"
  /\ call' = [call EXCEPT ![r] = c]
  /\ resp' = [resp EXCEPT ![r] =
                Response(200, [session_id |-> c.session_id, questions |-> Catalog])]
  /\ loc' = [loc EXCEPT ![r] = NoLoc]
  /\ UNCHANGED <<backend, clock, sessions, messages, feedback, pc, dbOpen>>

\* Depends(db): d = SessionLocal(); yield d
db_open(r, c) ==
  /\ pc[r] = "idle"
  /\ call' = [call EXCEPT ![r] = c]
  /\ pc' = [pc EXCEPT ![r] = "handler"]
  /\ dbOpen' = [dbOpen EXCEPT ![r] = TRUE]
  /\ loc' = [loc EXCEPT ![r] = NoLoc]
  /\ resp' = [resp EXCEPT ![r] = NoResp]
  /\ UNCHANGED <<backend, clock, sessions, messages, feedback>>

\* finally: d.close(); the response has been delivered.
db_close(r) ==
  /\ pc[r] = "close"
  /\ pc' = [pc EXCEPT ![r] = "idle"]
  /\ dbOpen' = [dbOpen EXCEPT ![r] = FALSE]
  /\ call' = [call EXCEPT ![r] = NoCall]
  /\ loc' = [loc EXCEPT ![r] = NoLoc]
  /\ resp' = [resp EXCEPT ![r] = NoResp]
  /\ UNCHANGED <<backend, clock, sessions, messages, feedback>>

start_session(r) ==
  /\ pc[r] = "handler"
  /\ call[r].op = "start_session"
  /\ \E id \in SessionIds \ DOMAIN sessions :
       /\ sessions' = (id :> NewSession(call[r], utcnow)) @@ sessions
       /\ Finish(r, Response(200, [session_id |-> id]), FALSE)
  /\ UNCHANGED <<backend, clock, messages, feedback, call, loc, dbOpen>>

save_message(r) ==
  /\ pc[r] = "handler"
  /\ call[r].op = "save_message"
  /\ IF InvalidRole(call[r].role)
       THEN /\ Finish(r, HTTPException(400, "Invalid role"), TRUE)
            /\ UNCHANGED messages
       ELSE IF ForeignKeyOk(call[r].session_id)
         THEN /\ messages' = Append(messages, NewMessage(call[r], utcnow))
              /\ Finish(r, Response(200, OkBody), FALSE)
         ELSE /\ Finish(r, ServerError, TRUE)
              /\ UNCHANGED messages
  /\ UNCHANGED <<backend, clock, sessions, feedback, call, loc, dbOpen>>

end_session_get(r) ==
  /\ pc[r] = "handler"
  /\ call[r].op = "end_session"
  /\ LET sess == s_get(call[r].session_id) IN
       IF SessionMissing(sess)
         THEN /\ Finish(r, HTTPException(404, "Session not found"), TRUE)
              /\ UNCHANGED loc
         ELSE /\ loc' = [loc EXCEPT ![r].sess = sess]
              /\ pc' = [pc EXCEPT ![r] = "now"]
              /\ UNCHANGED resp
  /\ UNCHANGED <<backend, clock, sessions, messages, feedback, call, dbOpen>>

end_session_now(r) ==
  /\ pc[r] = "now"
  /\ loc' = [loc EXCEPT ![r].now = Some(end_now)]
  /\ pc' = [pc EXCEPT ![r] = "commit"]
  /\ UNCHANGED <<backend, clock, sessions, messages, feedback, call, resp, dbOpen>>

end_session_commit(r) ==
  /\ pc[r] = "commit"
  /\ sessions' = UpdateEndedAt(call[r].session_id, loc[r].now[1])
  /\ Finish(r, Response(200, OkBody), FALSE)
  /\ UNCHANGED <<backend, clock, messages, feedback, call, loc, dbOpen>>

feedback_answer(r) ==
  /\ pc[r] = "handler"
  /\ call[r].op = "feedback_answer"
  /\ IF ForeignKeyOk(call[r].session_id)
       THEN /\ feedback' = InsertFeedback(NewFeedbackResponse(call[r], utcnow))
            /\ Finish(r, Response(200, OkBody), FALSE)
       ELSE /\ Finish(r, ServerError, TRUE)
            /\ UNCHANGED feedback
  /\ UNCHANGED <<backend, clock, sessions, messages, call, loc, dbOpen>>

export_feedback_csv(r) ==
  /\ pc[r] = "handler"
  /\ call[r].op = "export_feedback_csv"
  /\ \E q \in OrderByTs(feedback) :
       /\ loc' = [loc EXCEPT ![r].table = feedback, ![r].rows = q]
       /\ Finish(r, Response(200, [bom |-> TRUE, header |-> CsvHeader,
                                   rows |-> [i \in 1..Len(q) |-> CsvRow(q[i])]]), FALSE)
  /\ UNCHANGED <<backend, clock, sessions, messages, feedback, call, dbOpen>>

export_feedback_json(r) ==
  /\ pc[r] = "handler"
  /\ call[r].op = "export_feedback_json"
  /\ \E q \in OrderByTs(feedback) :
       /\ loc' = [loc EXCEPT ![r].table = feedback, ![r].rows = q]
       /\ Finish(r, Response(200, [rows |-> [i \in 1..Len(q) |-> JsonRow(q[i])]]), FALSE)
  /\ UNCHANGED <<backend, clock, sessions, messages, feedback, call, dbOpen>>

\* s.commit() raises (storage backend unavailable): nothing is written and
\* the exception leaves the handler.
commit_fail(r) ==
  /\ \/ pc[r] = "commit"
     \/ /\ pc[r] = "handler"
        /\ \/ call[r].op \in {"start_session", "feedback_answer"}
           \/ call[r].op = "save_message" /\ ~InvalidRole(call[r].role)
  /\ Finish(r, ServerError, TRUE)
  /\ UNCHANGED <<backend, clock, sessions, messages, feedback, call, loc, dbOpen>>

\* ---------------------------------------------------------------- workload
\* The clients.  The tables do not depend on one another (but for the
\* foreign key), so each specification below runs the endpoints of one part
\* of the API, and SpecAll runs all of them one request at a time.  A
\* request is admitted only while its row still fits the bound, so that no
\* admitted request is ever stuck.
InFlight(op) == Cardinality({ r \in Reqs : pc[r] = "handler" /\ call[r].op = op })

Admissible(c) ==
  CASE c.op = "start_session" ->
         Cardinality(DOMAIN sessions) + InFlight("start_session") < Cardinality(SessionIds)
    [] c.op = "save_message" -> Len(messages) + InFlight("save_message") < MaxMessages
    [] c.op = "feedback_answer" -> Len(feedback) + InFlight("feedback_answer") < MaxFeedback
    [] OTHER -> TRUE

Begin(r, W) == \E c \in W : Admissible(c) /\ db_open(r, c)

\* One budget of rows for both tables, where every endpoint runs.
AdmissibleAll(c) ==
  /\ Admissible(c)
  /\ c.op \in {"save_message", "feedback_answer"} => Len(messages) + Len(feedback) < MaxFeedback

\* Fewer payloads, where the payload is not what the specification is about.
StartNarrow == { c \in StartSessionReq : c.consented }
ChatNarrow == { c \in ChatMessageReq : c.session_id = "s1" /\ c.role \in {"user", "bot"} }
FeedbackNarrow == { c \in FeedbackAnswerReq : c.q_key = "mood" }

\* Session lifecycle: session-start and session-end, two requests in flight.
Next ==
  \/ Tick
  \/ \E r \in Reqs :
       \/ Begin(r, StartNarrow \cup EndSessionReq)
       \/ start_session(r)
       \/ end_session_get(r)
       \/ end_session_now(r)
       \/ end_session_commit(r)
       \/ db_close(r)

Spec == Init /\ [][Next]_vars

\* Chat transcript: session-start and chat-message.
NextChat ==
  \/ Tick
  \/ \E r \in Reqs :
       \/ Begin(r, StartNarrow \cup ChatMessageReq)
       \/ start_session(r)
       \/ save_message(r)
       \/ db_close(r)

SpecChat == Init /\ [][NextChat]_vars

\* Survey: session-start, feedback-answer and the exports.
NextFeedback ==
  \/ Tick
  \/ \E r \in Reqs :
       \/ Begin(r, StartNarrow \cup FeedbackAnswerReq \cup ExportReq)
       \/ start_session(r)
       \/ feedback_answer(r)
       \/ export_feedback_csv(r)
       \/ export_feedback_json(r)
       \/ db_close(r)

SpecFeedback == Init /\ [][NextFeedback]_vars

\* Every endpoint, one request at a time.
NextAll ==
  \/ Tick
  \/ healthz(1)
  \/ \E c \in FeedbackStartReq : feedback_start(1, c)
  \/ \E c \in StartNarrow \cup ChatNarrow \cup EndSessionReq \cup FeedbackNarrow \cup ExportReq :
       AdmissibleAll(c) /\ db_open(1, c)
  \/ start_session(1)
  \/ save_message(1)
  \/ end_session_get(1)
  \/ end_session_now(1)
  \/ end_session_commit(1)
  \/ feedback_answer(1)
  \/ export_feedback_csv(1)
  \/ export_feedback_json(1)
  \/ db_close(1)

SpecAll == Init /\ [][NextAll]_vars

\* Storage that may fail at commit, two requests in flight, every started
\* request scheduled until it ends (the worker thread keeps running).
RequestStep(r) ==
  \/ start_session(r)
  \/ save_message(r)
  \/ end_session_get(r)
  \/ end_session_now(r)
  \/ end_session_commit(r)
  \/ commit_fail(r)
  \/ db_close(r)

NextFault ==
  \E r \in Reqs :
    \/ Begin(r, StartSessionReq \cup ChatNarrow \cup EndSessionReq)
    \/ RequestStep(r)

SpecFault == Init /\ [][NextFault]_vars /\ \A r \in Reqs : WF_vars(RequestStep(r))

\* ================================================================ claims
IsPrefix(s, t) == Len(s) <= Len(t) /\ SubSeq(t, 1, Len(s)) = s
Last(s) == s[Len(s)]

\* Request r's handler takes its first step.
Handled(r, op) == pc[r] = "handler" /\ call[r].op = op /\ pc'[r] # "handler"

\* Request r's handler ends in this step.
Ends(r) == pc[r] # "close" /\ pc'[r] = "close"

\* This step stores exactly one message, the one request r submitted.
MessageStored(r) ==
  /\ Len(messages') = Len(messages) + 1
  /\ IsPrefix(messages, messages')
  /\ Last(messages').role = call[r].role
  /\ Last(messages').session_id = call[r].session_id
  /\ Last(messages').content = call[r].content

\* This step stores exactly one feedback row, the one request r submitted.
FeedbackStored(r) ==
  /\ Len(feedback') = Len(feedback) + 1
  /\ IsPrefix(feedback, feedback')
  /\ Last(feedback').q_key = call[r].q_key
  /\ Last(feedback').session_id = call[r].session_id
  /\ Last(feedback').answer_numeric = call[r].answer_numeric
  /\ Last(feedback').answer_text = call[r].answer_text

\* ---------------------------------------------------------------- C1
\* C1 as claimed: every chat-message with a role among user, assistant,
\* system succeeds with {ok:true} and adds exactly one message row carrying
\* the submitted role, session_id and content; with any other role it fails
\* with 400 and no table changes.
C1_AsClaimed ==
  [][\A r \in Reqs : Handled(r, "save_message") =>
       IF call[r].role \in {"user", "assistant", "system"}
         THEN /\ resp'[r] = Response(200, OkBody)
              /\ MessageStored(r)
              /\ UNCHANGED <<sessions, feedback>>
         ELSE /\ resp'[r].status = 400
              /\ UNCHANGED tables]_vars

\* C1 amended: a chat-message with a role among user, assistant, system
\* succeeds with {ok:true} and adds exactly one message row carrying the
\* submitted role, session_id and content when the backend does not enforce
\* the foreign key or the session exists; on a backend that enforces the
\* foreign key a message for an unknown session fails with a server error
\* and stores nothing; with any other role the call fails with 400 and no
\* table changes.
C1_RoleValidation ==
  [][\A r \in Reqs : Handled(r, "save_message") =>
       IF call[r].role \in {"user", "assistant", "system"}
         THEN IF backend = "sqlite" \/ call[r].session_id \in DOMAIN sessions
                THEN /\ resp'[r] = Response(200, OkBody)
                     /\ MessageStored(r)
                     /\ UNCHANGED <<sessions, feedback>>
                ELSE /\ resp'[r].status = 500
                     /\ UNCHANGED tables
         ELSE /\ resp'[r].status = 400
              /\ UNCHANGED tables]_vars

\* One request stored its "assistant" message while another was refused
\* for role "bot".
C1_Witness ==
  \E r1, r2 \in Reqs :
    /\ pc[r1] = "close" /\ call[r1].op = "save_message" /\ call[r1].role = "assistant"
    /\ resp[r1] = Response(200, OkBody)
    /\ Len(messages) = 1 /\ messages[1].role = "assistant"
    /\ pc[r2] = "close" /\ call[r2].op = "save_message" /\ call[r2].role = "bot"
    /\ resp[r2].status = 400

\* ---------------------------------------------------------------- C9
\* C9 as claimed: a chat-message with a valid role for a session_id that no
\* stored session has succeeds with {ok:true}, stores one message row with
\* that session_id and creates no session.
C9_AsClaimed ==
  [][\A r \in Reqs :
       ( /\ Handled(r, "save_message")
         /\ call[r].role \in {"user", "assistant", "system"}
         /\ call[r].session_id \notin DOMAIN sessions )
       => /\ resp'[r] = Response(200, OkBody)
          /\ MessageStored(r)
          /\ UNCHANGED sessions]_vars

\* C9 amended: chat-message never looks the session up and never creates
\* one; for a session_id that no stored session has, a valid-role message
\* succeeds with {ok:true} and is stored as an orphan on a backend that does
\* not enforce the foreign key (SQLite as connected here), and fails with a
\* server error storing nothing on a backend that enforces it (PostgreSQL).
C9_OrphanMessage ==
  [][\A r \in Reqs :
       ( /\ Handled(r, "save_message")
         /\ call[r].role \in {"user", "assistant", "system"}
         /\ call[r].session_id \notin DOMAIN sessions )
       => /\ UNCHANGED sessions
          /\ IF backend = "sqlite"
               THEN resp'[r] = Response(200, OkBody) /\ MessageStored(r)
               ELSE resp'[r].status = 500 /\ UNCHANGED messages]_vars

\* An orphaned message is stored and its request answered {ok:true}.
C9_Witness ==
  \E r \in Reqs :
    /\ pc[r] = "close" /\ call[r].op = "save_message"
    /\ resp[r] = Response(200, OkBody)
    /\ Len(messages) = 1
    /\ messages[1].session_id = call[r].session_id
    /\ messages[1].session_id \notin DOMAIN sessions

\* ---------------------------------------------------------------- C2
\* C2: session-end for an identifier that no stored session has answers 404
\* and neither that step nor the rest of the request changes any table.
C2_EndSessionNotFound ==
  [][\A r \in Reqs :
       /\ ( Handled(r, "end_session") /\ call[r].session_id \notin DOMAIN sessions )
            => /\ resp'[r].status = 404
               /\ pc'[r] = "close"
               /\ UNCHANGED tables
       /\ ( pc[r] = "close" /\ resp[r].status = 404 /\ pc'[r] # pc[r] )
            => UNCHANGED tables]_vars

\* A session-end was answered 404 while another session exists, unended.
C2_Witness ==
  \E r \in Reqs :
    /\ pc[r] = "close" /\ call[r].op = "end_session" /\ resp[r].status = 404
    /\ call[r].session_id \notin DOMAIN sessions
    /\ \E id \in DOMAIN sessions : sessions[id].ended_at = NULL

\* ---------------------------------------------------------------- C3
EndNotBeforeStart ==
  \A id \in DOMAIN sessions :
    sessions[id].ended_at # NULL => sessions[id].ended_at[1] >= sessions[id].started_at

\* Request r commits session-end for a session it read as already ended.
SecondEnd(r) == pc[r] = "commit" /\ pc'[r] = "close" /\ loc[r].sess[1].ended_at # NULL

\* C3 as claimed: a session's end timestamp is never before its start
\* timestamp, and a session-end on a session that an earlier session-end
\* already ended leaves an end timestamp strictly later than that one.
C3_AsClaimed ==
  /\ []EndNotBeforeStart
  /\ [][\A r \in Reqs : SecondEnd(r) =>
          sessions'[call[r].session_id].ended_at[1] > loc[r].sess[1].ended_at[1]]_vars

\* C3 amended: a session's end timestamp is never before its start
\* timestamp, and a session-end on a session that an earlier session-end
\* already ended leaves an end timestamp later than or equal to that one
\* (equal when the clock gives both calls the same reading).
C3_EndTimestamp ==
  /\ []EndNotBeforeStart
  /\ [][\A r \in Reqs : SecondEnd(r) =>
          sessions'[call[r].session_id].ended_at[1] >= loc[r].sess[1].ended_at[1]]_vars

\* A second session-end has replaced the end timestamp by a later one.
C3_Witness ==
  \E r \in Reqs :
    /\ pc[r] = "close" /\ call[r].op = "end_session" /\ resp[r].status = 200
    /\ loc[r].sess[1].ended_at # NULL
    /\ sessions[call[r].session_id].ended_at = loc[r].now
    /\ loc[r].now[1] > loc[r].sess[1].ended_at[1]

Exported(r, op) == pc[r] = "close" /\ call[r].op = op /\ resp[r].status = 200

\* The CSV row the JSON object j corresponds to.
CsvOfJson(j) ==
  [session_id |-> j.session_id,
   q_key |-> j.q_key,
   answer_numeric |-> IF j.answer_numeric = NULL THEN "" ELSE ToString(j.answer_numeric[1]),
   answer_text |-> [i \in 1..Len(OrEmpty(j.answer_text)) |->
                      IF OrEmpty(j.answer_text)[i] = "\n" THEN " " ELSE OrEmpty(j.answer_text)[i]],
   ts |-> j.ts]

Ascending(rows) == \A i, j \in 1..Len(rows) : i < j => rows[i].ts <= rows[j].ts

\* C4: an export-csv and an export-json that read the same feedback table
\* return one row per stored row, in ascending timestamp order, and the
\* i-th CSV row is the i-th JSON row, also when rows carry equal timestamps.
C4_AsClaimed ==
  \A r1, r2 \in Reqs :
    ( /\ Exported(r1, "export_feedback_csv")
      /\ Exported(r2, "export_feedback_json")
      /\ loc[r1].table = loc[r2].table )
    => /\ Len(resp[r1].body.rows) = Len(loc[r1].table)
       /\ Len(resp[r2].body.rows) = Len(loc[r2].table)
       /\ Ascending(loc[r1].rows) /\ Ascending(loc[r2].rows)
       /\ \A i \in 1..Len(resp[r1].body.rows) :
            resp[r1].body.rows[i] = CsvOfJson(resp[r2].body.rows[i])

\* ---------------------------------------------------------------- C5
\* Every row of the table an export read is in its answer once, with the
\* row's q_key and session_id as stored.
ExportsVerbatim ==
  \A r \in Reqs :
    ( Exported(r, "export_feedback_csv") \/ Exported(r, "export_feedback_json") )
    => /\ Len(resp[r].body.rows) = Len(loc[r].table)
       /\ \E p \in Orderings(Len(loc[r].table)) :
            \A i \in 1..Len(loc[r].table) :
              /\ resp[r].body.rows[i].q_key = loc[r].table[p[i]].q_key
              /\ resp[r].body.rows[i].session_id = loc[r].table[p[i]].session_id

\* C5 as claimed: feedback-answer succeeds with {ok:true} for any q_key and
\* any session_id, in the catalog or not, stored session or not, and stored
\* rows appear with their q_key verbatim in both exports.
C5_AsClaimed ==
  /\ [][\A r \in Reqs : Handled(r, "feedback_answer") =>
          resp'[r] = Response(200, OkBody) /\ FeedbackStored(r)]_vars
  /\ []ExportsVerbatim

\* C5 amended: feedback-answer never checks q_key against the catalog and
\* never looks the session up: it succeeds with {ok:true} and stores the row
\* for any q_key when the backend does not enforce the foreign key or the
\* session exists, and fails with a server error storing nothing for an
\* unknown session on a backend that enforces it; stored rows appear with
\* their q_key verbatim in both exports.
C5_AnyQuestionKey ==
  /\ [][\A r \in Reqs : Handled(r, "feedback_answer") =>
          IF backend = "sqlite" \/ call[r].session_id \in DOMAIN sessions
            THEN resp'[r] = Response(200, OkBody) /\ FeedbackStored(r)
            ELSE resp'[r].status = 500 /\ UNCHANGED feedback]_vars
  /\ []ExportsVerbatim

\* An answer to "mood", no catalog key, for a session that does not exist,
\* is shown by a CSV and a JSON export.
C5_Witness ==
  \E r1, r2 \in Reqs :
    /\ Exported(r1, "export_feedback_csv")
    /\ Exported(r2, "export_feedback_json")
    /\ \E i \in 1..Len(feedback) :
         feedback[i].q_key = "mood" /\ feedback[i].session_id \notin DOMAIN sessions
    /\ loc[r1].table = feedback /\ loc[r2].table = feedback
    /\ \E i \in 1..Len(resp[r1].body.rows) : resp[r1].body.rows[i].q_key = "mood"
    /\ \E i \in 1..Len(resp[r2].body.rows) : resp[r2].body.rows[i].q_key = "mood"

\* ---------------------------------------------------------------- C6
\* C6: feedback rows are append-only: no step removes or changes a stored
\* row, and each feedback-answer that is answered {ok:true} adds exactly one
\* row, also when a row with the same (session_id, q_key) is already stored.
C6_AppendOnly ==
  [][/\ IsPrefix(feedback, feedback')
     /\ \A r \in Reqs :
          ( Handled(r, "feedback_answer") /\ resp'[r].status = 200 ) => FeedbackStored(r)]_vars

\* Two stored rows answer the same question of the same session.
C6_Witness ==
  \E i, j \in 1..Len(feedback) :
    /\ i < j
    /\ feedback[i].session_id = feedback[j].session_id
    /\ feedback[i].q_key = feedback[j].q_key

\* ---------------------------------------------------------------- C10
\* Stored sessions a and b differ at most in their end timestamp.
SameButEnd(a, b) == [a EXCEPT !.ended_at = NULL] = [b EXCEPT !.ended_at = NULL]

\* C10: no step deletes a session or changes anything of a stored session
\* but its end timestamp; only the commit of a session-end changes an end
\* timestamp, and it changes that of the session it names alone, leaving
\* every other session, every message and every feedback row as they were.
C10_SessionFrame ==
  [][/\ \A id \in DOMAIN sessions :
          id \in DOMAIN sessions' /\ SameButEnd(sessions[id], sessions'[id])
     /\ \A id \in DOMAIN sessions :
          sessions'[id] # sessions[id] =>
            \E r \in Reqs :
              /\ pc[r] = "commit" /\ call[r].op = "end_session" /\ call[r].session_id = id
              /\ \A other \in DOMAIN sessions \ {id} : sessions'[other] = sessions[other]
              /\ DOMAIN sessions' = DOMAIN sessions
              /\ UNCHANGED <<messages, feedback>>]_vars

\* A session-end has ended one of two sessions, the other is unended, and a
\* message or feedback row is stored.
C10_Witness ==
  \E r \in Reqs :
    /\ pc[r] = "close" /\ call[r].op = "end_session" /\ resp[r].status = 200
    /\ sessions[call[r].session_id].ended_at # NULL
    /\ \E other \in DOMAIN sessions : sessions[other].ended_at = NULL
    /\ Len(messages) + Len(feedback) > 0

\* ---------------------------------------------------------------- C8
\* C8: a request whose handling is over holds no open storage session; an
\* opened storage session is eventually closed, whether the handler
\* returned, raised 400 or 404, or its commit failed; and only a handler
\* step that answers 200 changes a table, so a failed request has written
\* nothing.
C8_SessionClosed ==
  /\ [](\A r \in Reqs : pc[r] = "idle" => ~dbOpen[r])
  /\ \A r \in Reqs : dbOpen[r] ~> ~dbOpen[r]
  /\ [][\A r \in Reqs : ( Ends(r) /\ resp'[r].status # 200 ) => UNCHANGED tables]_vars
  /\ [][tables' # tables => \E r \in Reqs : Ends(r) /\ resp'[r].status = 200]_vars

\* A commit has failed: its request is answered 500 and its storage session
\* awaits the close, while the other request was refused with 400 or 404.
C8_Witness ==
  \E r1, r2 \in Reqs :
    /\ pc[r1] = "close" /\ resp[r1].status = 500 /\ dbOpen[r1]
    /\ pc[r2] = "close" /\ resp[r2].status \in {400, 404} /\ dbOpen[r2]
====
